---- MODULE Spec2Model ----
(***************************************************************************)
(* Model of the mention-reply orchestrator (InstagramBot) and of the       *)
(* monitor loop that drives it (runMonitorMode), together with the dedup   *)
(* store file mentions_seen_<account>.json.                                *)
(***************************************************************************)
EXTENDS Integers, Sequences, FiniteSets, TLC

(* ---------------- bounds of the model ---------------- *)
MaxRuns == 2
MaxCycles == 2
MaxQueue == 2
MaxText == 2
MaxPoints == 2
MaxAttempts == 2
MaxRequests == 2
MaxWindow == 4
RandomSteps == 4

(* ---------------- configuration and inputs ---------------- *)
\* Accounts of config.accounts, in configuration order.
AccountOrder == <<"bot1", "bot2">>
Accounts == {AccountOrder[n] : n \in 1..Len(AccountOrder)}

\* Optional<T> of the source (a value or undefined) is a sequence of length 0 or 1.
Undefined == <<>>
Some(v) == <<v>>

\* x ?? ''
OrEmpty(x) == IF x = Undefined THEN "" ELSE x[1]

\* createHash('sha1').update(raw).digest('hex'): a collision-free function of the hashed string.
Sha1Hex(raw) == <<"sha1", raw>>

buildMentionKey(postUrl, commenterUsername, commentText) ==
    Sha1Hex(postUrl \o "|" \o OrEmpty(commenterUsername) \o "|" \o OrEmpty(commentText))

\* A MentionNotification as collectMentionNotifications builds it.
MentionNotification(postUrl, commenterUsername, commentText) ==
    [key |-> buildMentionKey(postUrl, commenterUsername, commentText),
     postUrl |-> postUrl,
     commenterUsername |-> commenterUsername,
     commentText |-> commentText]

\* The mentions a discovery can list: one post, by another user or by the
\* account itself.
Mentions ==
    {MentionNotification(p, c, t) :
        p \in {"P1"}, c \in {Some("alice"), Some("bot1")}, t \in {Some("hi")}}

SeqsUpTo(S, n) == UNION {[1..k -> S] : k \in 0..n}

(* ---------------- the dedup file ---------------- *)
\* Content of mentions_seen_<account>.json: missing, a JSON array of keys, or
\* bytes that JSON.parse rejects (an empty or partially written file).
FileAbsent == [kind |-> "absent", keys |-> {}]
FileGarbage == [kind |-> "garbage", keys |-> {}]
FileJson(S) == [kind |-> "json", keys |-> S]

\* fs.writeFileSync opens the file with truncation and then writes: it either
\* completes, fails before the file is touched, or fails after truncating it.
WriteOutcomes == {"ok", "failUntouched", "failTruncated"}

writeFileSync(old, content, outcome) ==
    CASE outcome = "ok" -> content
      [] outcome = "failUntouched" -> old
      [] OTHER -> FileGarbage

\* The catch block of loadSeenMentions: start fresh and rewrite the file; the
\* rewrite is not guarded, so its failure leaves the constructor by exception.
LoadRecover(f, w2) ==
    [seen |-> {}, file |-> writeFileSync(f, FileJson({}), w2), threw |-> (w2 # "ok")]

\* loadSeenMentions: f the file, readOk whether readFileSync succeeds, w1 the
\* outcome of the write in the try block, w2 of the write in the catch block.
loadSeenMentions(f, readOk, w1, w2) ==
    IF f.kind = "absent"
    THEN IF w1 = "ok"
         THEN [seen |-> {}, file |-> FileJson({}), threw |-> FALSE]
         ELSE LoadRecover(writeFileSync(f, FileJson({}), w1), w2)
    ELSE IF ~readOk
         THEN LoadRecover(f, w2)
         ELSE IF f.kind = "json"
              THEN [seen |-> f.keys, file |-> f, threw |-> FALSE]
              ELSE LoadRecover(f, w2)

\* persistSeenMentions: rewrite the whole file; a failure is logged and swallowed.
persistSeenMentions_skip(f, keys, w) == f
persistSeenMentions_stale(f, keys, w) == writeFileSync(f, FileJson(f.keys), w)
persistSeenMentions(f, keys, w) == writeFileSync(f, FileJson(keys), w)

\* this.seenMentionKeys.add(key)
SeenAdd_reset(s, key) == {key}
SeenAdd(s, key) == s \cup {key}

\* result !== 'FAILED'
ShouldMark_always(r) == TRUE
ShouldMark(r) == r # "FAILED"

\* this.seenMentionKeys.has(mention.key)
AlreadySeen_never(s, key) == FALSE
AlreadySeen(s, key) == key \in s

(* ---------------- replyToMention ---------------- *)
\* The ways one attempt can run, by the first step that ends it.
ReplyPaths == {"throwOpen", "throwLocate", "noComment", "noReplyButton", "throwClickReply",
               "throwGenerate", "noTextarea", "throwType", "noPostButton",
               "throwSubmit", "successLogFail", "success"}

ThrowPaths == {"throwOpen", "throwLocate", "throwClickReply", "throwGenerate", "throwType",
               "throwSubmit"}

\* mention.commenterUsername && mention.commenterUsername === this.config.username
IsSelfMention_never(m, a) == FALSE
IsSelfMention(m, a) == m.commenterUsername # Undefined /\ m.commenterUsername[1] # "" /\ m.commenterUsername[1] = a

\* Result of replyToMention for mention m of account a along path p.
ReplyResult_missingFails(m, a, p) ==
    IF IsSelfMention(m, a) THEN "SKIPPED"
    ELSE CASE p = "noTextarea" -> "SKIPPED"
           [] p \in {"noComment", "noReplyButton", "noPostButton"} -> "FAILED"
           [] p \in ThrowPaths -> "FAILED"
           [] OTHER -> "SUCCESS"
ReplyResult_buttonSkips(m, a, p) ==
    IF IsSelfMention(m, a) THEN "SKIPPED"
    ELSE CASE p \in {"noComment", "noReplyButton", "noTextarea", "noPostButton"} -> "SKIPPED"
           [] p \in ThrowPaths -> "FAILED"
           [] OTHER -> "SUCCESS"
ReplyResult(m, a, p) ==
    IF IsSelfMention(m, a) THEN "SKIPPED"
    ELSE CASE p \in {"noComment", "noReplyButton", "noTextarea"} -> "SKIPPED"
           [] p = "noPostButton" -> "FAILED"
           [] p \in ThrowPaths -> "FAILED"
           [] OTHER -> "SUCCESS"

\* External actions performed by the attempt, in order ("log": a row was
\* appended to the interaction log, "logFailed": appendFileSync threw and
\* logInteraction swallowed it).
ReplySteps_generateFirst(m, a, p) ==
    IF IsSelfMention(m, a) THEN <<>>
    ELSE CASE p = "throwOpen" -> <<"goto">>
           [] p \in {"throwLocate", "noComment"} -> <<"goto", "locate">>
           [] p = "noReplyButton" -> <<"goto", "locate", "hover">>
           [] p = "throwGenerate" -> <<"goto", "locate", "hover", "generate">>
           [] p = "throwClickReply" -> <<"goto", "locate", "hover", "generate", "clickReply">>
           [] p = "noTextarea" -> <<"goto", "locate", "hover", "generate", "clickReply">>
           [] p \in {"throwType", "noPostButton"} ->
                 <<"goto", "locate", "hover", "generate", "clickReply", "type">>
           [] p = "throwSubmit" ->
                 <<"goto", "locate", "hover", "generate", "clickReply", "type", "clickPost">>
           [] p = "successLogFail" ->
                 <<"goto", "locate", "hover", "generate", "clickReply", "type", "clickPost", "logFailed">>
           [] OTHER ->
                 <<"goto", "locate", "hover", "generate", "clickReply", "type", "clickPost", "log">>
ReplySteps(m, a, p) ==
    IF IsSelfMention(m, a) THEN <<>>
    ELSE CASE p = "throwOpen" -> <<"goto">>
           [] p = "throwLocate" -> <<"goto", "locate">>
           [] p = "noComment" -> <<"goto", "locate">>
           [] p = "noReplyButton" -> <<"goto", "locate", "hover">>
           [] p = "throwClickReply" -> <<"goto", "locate", "hover", "clickReply">>
           [] p = "throwGenerate" -> <<"goto", "locate", "hover", "clickReply", "generate">>
           [] p = "noTextarea" -> <<"goto", "locate", "hover", "clickReply", "generate">>
           [] p = "throwType" -> <<"goto", "locate", "hover", "clickReply", "generate", "type">>
           [] p = "noPostButton" -> <<"goto", "locate", "hover", "clickReply", "generate", "type">>
           [] p = "throwSubmit" -> <<"goto", "locate", "hover", "clickReply", "generate", "type", "clickPost">>
           [] p = "successLogFail" -> <<"goto", "locate", "hover", "clickReply", "generate", "type", "clickPost", "logFailed">>
           [] OTHER -> <<"goto", "locate", "hover", "clickReply", "generate", "type", "clickPost", "log">>

\* The step that ended the attempt ("self": the guard on the first line).
ReplyPath(m, a, p) == IF IsSelfMention(m, a) THEN "self" ELSE p

\* Whether the attempt left the try block by exception.
ReplyThrew(m, a, p) == ~IsSelfMention(m, a) /\ p \in ThrowPaths

\* Screenshot the attempt writes: replyToMention calls page.screenshot nowhere.
ReplyShot(m, a, p) == "none"

(* ---------------- runCommentTask ---------------- *)
\* The ways one comment task can run, by the step that ends it ("verified" /
\* "unverified": the submitted text was / was not found in the dialog).
CommentPaths == {"throwGoto", "private", "noPosts", "throwOpenPost", "throwGenerate",
                 "noTextarea", "throwType", "noPostButton", "throwSubmit", "throwVerify",
                 "verified", "unverified", "verifiedLogFail", "unverifiedLogFail"}

CommentThrowPaths == {"throwGoto", "throwOpenPost", "throwGenerate", "throwType",
                      "throwSubmit", "throwVerify"}

CommentResult(p) ==
    CASE p \in {"private", "noPosts", "noTextarea"} -> "SKIPPED"
      [] p = "noPostButton" -> "FAILED"
      [] p \in CommentThrowPaths -> "FAILED"
      [] OTHER -> "SUCCESS"

\* The external actions of a comment task that runs to its end, in order.
CommentActions == <<"gotoProfile", "openPost", "generate", "type", "clickPost", "verify", "log">>

\* How many of them a task performs along path p.
CommentStepCount_ignorePrivate(p) ==
    CASE p \in {"throwGoto", "noPosts"} -> 1
      [] p = "throwOpenPost" -> 2
      [] p \in {"throwGenerate", "noTextarea"} -> 3
      [] p \in {"throwType", "noPostButton"} -> 4
      [] p = "throwSubmit" -> 5
      [] p = "throwVerify" -> 6
      [] OTHER -> 7
CommentStepCount(p) ==
    CASE p \in {"throwGoto", "private", "noPosts"} -> 1
      [] p = "throwOpenPost" -> 2
      [] p \in {"throwGenerate", "noTextarea"} -> 3
      [] p \in {"throwType", "noPostButton"} -> 4
      [] p = "throwSubmit" -> 5
      [] p = "throwVerify" -> 6
      [] OTHER -> 7

\* External actions performed by the task ("logFailed" as in ReplySteps).
CommentSteps(p) ==
    IF p \in {"verifiedLogFail", "unverifiedLogFail"}
    THEN SubSeq(CommentActions, 1, 6) \o <<"logFailed">>
    ELSE SubSeq(CommentActions, 1, CommentStepCount(p))

\* Screenshot the task writes.
CommentShot(p) ==
    CASE p = "noPosts" -> "no_posts_error"
      [] p = "noTextarea" -> "no_comment_area_error"
      [] p = "noPostButton" -> "no_post_button_error"
      [] p \in CommentThrowPaths -> "comment_task_error"
      [] OTHER -> "none"

(* ---------------- state ---------------- *)
VARIABLES
    enabledAccounts,   \* config.accounts.filter(acc => acc.enabled)
    run,               \* number of process starts so far
    pc,                \* position of the single thread of control
    idx,               \* loop index: into enabledAccounts (init) or sessions (cycle)
    sessions,          \* runMonitorMode's sessions array (account names)
    browser,           \* per account: "none" | "open" | "closed"
    bot,               \* per account: the InstagramBot object exists
    seenMentionKeys,   \* per account: InstagramBot.seenMentionKeys
    mentionSeenFile,   \* per account: content of the dedup file
    cycle,             \* monitoring cycles started in this run
    notifications,     \* mentions of the current task not yet examined
    mention,           \* the mention being attempted (Some) or Undefined
    result,            \* result of the attempt being handled
    steps,             \* external actions of the last attempt
    threw,             \* the last attempt left its try block by exception
    screenshot,        \* screenshot written by the operation in progress, or "none"
    error,             \* an error left runMonitorMode
    persistOk,         \* outcome of the last persistSeenMentions
    handled,           \* per account: keys attempted with SUCCESS/SKIPPED by this instance
    failedKeys,        \* per account: keys whose last attempt by this instance FAILED
    durable,           \* per account: keys marked seen whose file write succeeded
    lastDiscovery,     \* "none" | "ok" | "threw": last collectMentionNotifications
    initFail,          \* why the last initializeBotSession failed, or "none"
    prevExit,          \* how the previous process run ended
    entered,           \* the monitor loop was entered in this run
    delayed,           \* the inter-account delay followed the last finished task
    path,              \* how the last attempt ran: the step that ended it, or "none"
    logins,            \* results of the login runs of the last bot.init, in order
    loginCheck,        \* what checkIfLoggedIn told that init: "loggedIn" | "notLoggedIn" | "none"
    tally,             \* replied / skipped / failed of the runMentionReplyTask in progress
    shouldPause,       \* pauseState.shouldPause, shared by all simulators
    developerMode,     \* config.settings.developerMode
    simOp,             \* per account: the HumanBehavior operation in progress, or "idle"
    program,           \* per account: primitive steps the operation has still to perform
    simPaused,         \* per account: the simulator is suspended in page.pause()
    checked,           \* per account: the operation in progress has called checkForPause
    last,              \* per account: last primitive step of the operation in progress
    requestedDuring,   \* what the running simulator was doing when the pending pause was requested
    requests,          \* times the keypress handler set a clear flag, in this process
    suspensions,       \* times a checkForPause awaited page.pause(), in this process
    fn,                \* the function under evaluation, or "none"
    args,              \* its inputs
    value,             \* what it has returned so far
    capturedVideoUrl,  \* InstagramBot.capturedVideoUrl: Undefined or Some(url)
    isCapturingVideo,  \* InstagramBot.isCapturingVideo
    op,                \* the task of that orchestrator in progress: "idle" | "reply" | "comment"
    opPc,              \* its position: "none" | "profile" | "opening" | "media" | "generated"
    attempts,          \* tasks started so far that reached the reset of capturedVideoUrl
    mediaVideoUrl,     \* media.videoUrl / postVideoUrl of the task in progress
    generatorVideoUrl, \* the video URL the task in progress passed to the generator
    storedIn,          \* the attempt during which capturedVideoUrl was stored, or 0
    storeCount         \* how often the handler stored a URL during the attempt in progress

\* State of the orchestrators and of the process that runs them.
monitorVars == <<enabledAccounts, run, pc, idx, sessions, browser, bot, seenMentionKeys,
                 mentionSeenFile, cycle, notifications, mention, result, steps, threw,
                 screenshot, error, persistOk, handled, failedKeys, durable, lastDiscovery,
                 initFail, prevExit, entered, delayed, path, logins, loginCheck, tally>>

\* State of the interaction simulators and of the pause flag they share.
simVars == <<shouldPause, developerMode, simOp, program, simPaused, checked, last,
             requestedDuring, requests, suspensions>>

\* A function of the program evaluated on its own.
calcVars == <<fn, args, value>>

\* The video capture of one orchestrator and the task that uses it.
captureVars == <<capturedVideoUrl, isCapturingVideo, op, opPc, attempts, mediaVideoUrl,
                 generatorVideoUrl, storedIn, storeCount>>

vars == <<monitorVars, simVars, calcVars, captureVars>>

\* Groups of variables, for the UNCHANGED clauses.
configVars == <<enabledAccounts, run>>
sessionVars == <<sessions, browser, bot>>
storeVars == <<seenMentionKeys, mentionSeenFile, durable, handled, failedKeys>>
attemptVars == <<mention, result, steps, threw, screenshot, persistOk, path>>
exitVars == <<error, prevExit, delayed>>

\* The configuration with all accounts enabled.
FleetConfigs == {AccountOrder}

NoAccounts == [a \in Accounts |-> FALSE]

\* let replied = 0; let skipped = 0; let failed = 0;
NoTally == [replied |-> 0, skipped |-> 0, failed |-> 0]
EmptySets == [a \in Accounts |-> {}]

\* No simulator is running an operation and no pause is requested.
SimulatorsIdle ==
    /\ shouldPause = FALSE
    /\ simOp = [a \in Accounts |-> "idle"]
    /\ program = [a \in Accounts |-> <<>>]
    /\ simPaused = NoAccounts
    /\ checked = NoAccounts
    /\ last = [a \in Accounts |-> "none"]
    /\ requestedDuring = "none"
    /\ requests = 0
    /\ suspensions = 0

\* The state of the process before its first start, for a configuration of E.
InitMonitor(E) ==
    /\ enabledAccounts \in E
    /\ run = 0
    /\ pc = "off"
    /\ idx = 1
    /\ sessions = <<>>
    /\ browser = [a \in Accounts |-> "none"]
    /\ bot = NoAccounts
    /\ seenMentionKeys = EmptySets
    /\ mentionSeenFile = [a \in Accounts |-> FileAbsent]
    /\ cycle = 0
    /\ notifications = <<>>
    /\ mention = Undefined
    /\ result = "SKIPPED"
    /\ steps = <<>>
    /\ threw = FALSE
    /\ screenshot = "none"
    /\ error = FALSE
    /\ persistOk = "ok"
    /\ handled = EmptySets
    /\ failedKeys = EmptySets
    /\ durable = EmptySets
    /\ lastDiscovery = "none"
    /\ initFail = "none"
    /\ prevExit = "none"
    /\ entered = FALSE
    /\ delayed = FALSE
    /\ path = "none"
    /\ logins = <<>>
    /\ loginCheck = "none"
    /\ tally = NoTally

\* No function is under evaluation.
CalcIdle ==
    /\ fn = "none"
    /\ args = <<>>
    /\ value = <<>>

\* The orchestrator as constructed: nothing captured, no task in progress.
CaptureIdle ==
    /\ capturedVideoUrl = Undefined
    /\ isCapturingVideo = FALSE
    /\ op = "idle"
    /\ opPc = "none"
    /\ attempts = 0
    /\ mediaVideoUrl = Undefined
    /\ generatorVideoUrl = Undefined
    /\ storedIn = 0
    /\ storeCount = 0

\* The state before the first start of the process, for a configuration of E.
InitWith(E) ==
    /\ InitMonitor(E)
    /\ developerMode = FALSE
    /\ SimulatorsIdle
    /\ CalcIdle
    /\ CaptureIdle

\* Configurations with at most one enabled account.
Init == InitWith({<<>>, <<"bot1">>})


(* ---------------- process life cycle ---------------- *)
\* How one run of login() ends: it returns, or it throws because the username
\* input or, after the form was submitted, the profile link did not appear.
LoginReturns == {"ok"}
LoginThrows == {"noUsernameInput", "noProfileLink"}

\* The login runs of bot.init after its login check: none when the session is
\* found logged in; when it is found not logged in one, and a second one from
\* the catch block if the first one threw. Nothing else in the try block
\* throws: dismissCommonPopups, checkIfLoggedIn and ensureCookiesAreSaved
\* catch what their page calls throw.
LoginRuns_retryAgain(check) ==
    CASE check = "loggedIn" -> {<<>>}
      [] check = "notLoggedIn" ->
            {<<r>> : r \in LoginReturns}
            \cup {<<f, r>> : f \in LoginThrows, r \in LoginReturns}
            \cup {<<f, g, r>> : f \in LoginThrows, g \in LoginThrows, r \in LoginReturns \cup LoginThrows}
      [] OTHER -> {<<>>}
LoginRuns(check) ==
    CASE check = "loggedIn" -> {<<>>}
      [] check = "notLoggedIn" ->
            {<<r>> : r \in LoginReturns} \cup {<<f, r>> : f \in LoginThrows, r \in LoginReturns \cup LoginThrows}
      [] OTHER -> {<<>>}

\* How initializeBotSession can go after the browser was launched: the
\* context cannot be made, or bot.init runs with a result of its login check.
InitOutcomes ==
    UNION {{[check |-> c, logins |-> l] : l \in LoginRuns(c)} :
              c \in {"contextThrow", "loggedIn", "notLoggedIn"}}

\* bot.init throws: its last login run threw.
InitThrows_never(o) == FALSE
InitThrows(o) == o.logins # <<>> /\ o.logins[Len(o.logins)] \in LoginThrows

\* The screenshot a login run writes before it throws.
LoginShot(r) ==
    CASE r = "noProfileLink" -> "login_error"
      [] r = "noUsernameInput" -> "login_page_error"
      [] OTHER -> "none"

\* The last screenshot the login runs of bot.init wrote.
InitShot(o) ==
    LET shots == SelectSeq([n \in 1..Len(o.logins) |-> LoginShot(o.logins[n])],
                           LAMBDA x : x # "none")
    IN IF shots = <<>> THEN "none" ELSE shots[Len(shots)]

\* The account whose task is running (cycle phase).
Current == sessions[idx]

\* Nothing of the process memory is left (the loop index apart).
FreshMemory ==
    /\ sessions' = <<>>
    /\ browser' = [a \in Accounts |-> "none"]
    /\ bot' = NoAccounts
    /\ seenMentionKeys' = EmptySets
    /\ cycle' = 0
    /\ notifications' = <<>>
    /\ mention' = Undefined
    /\ result' = "SKIPPED"
    /\ steps' = <<>>
    /\ threw' = FALSE
    /\ screenshot' = "none"
    /\ error' = FALSE
    /\ persistOk' = "ok"
    /\ handled' = EmptySets
    /\ failedKeys' = EmptySets
    /\ lastDiscovery' = "none"
    /\ initFail' = "none"
    /\ entered' = FALSE
    /\ delayed' = FALSE
    /\ path' = "none"
    /\ logins' = <<>>
    /\ loginCheck' = "none"
    /\ tally' = NoTally

\* Nothing of the process memory is left.
MemoryCleared ==
    /\ idx' = 1
    /\ FreshMemory

\* The process starts: main() reaches runMonitorMode with nothing in memory;
\* without enabled accounts it returns at once. At most n starts are followed.
RunMonitorModeUpTo(n) ==
    /\ pc \in {"off", "ended"}
    /\ run < n
    /\ run' = run + 1
    /\ pc' = IF enabledAccounts = <<>> THEN "ended" ELSE "init"
    /\ prevExit' = IF enabledAccounts = <<>> THEN "ended" ELSE prevExit
    /\ MemoryCleared
    /\ UNCHANGED <<enabledAccounts, mentionSeenFile, durable, simVars, calcVars, captureVars>>

RunMonitorMode == RunMonitorModeUpTo(MaxRuns)

\* The process is killed (CTRL+C, power loss) between two steps: memory is
\* lost, files stay as they are.
Crash ==
    /\ pc \notin {"off", "ended"}
    /\ pc' = "off"
    /\ prevExit' = "crash"
    /\ MemoryCleared
    /\ UNCHANGED <<configVars, simVars, calcVars, captureVars, mentionSeenFile, durable>>

\* sessions.length === 0 decides between leaving and entering the loop.
LoopEntered_all(sess) == Len(sess) = Len(enabledAccounts)
LoopEntered(sess) == sess # <<>>

\* One iteration of the initialisation loop: initializeBotSession(account);
\* R and W are the outcomes the file system may give to reads and writes.
InitializeBotSessionIO(R, W) ==
    /\ pc = "init"
    /\ idx <= Len(enabledAccounts)
    /\ LET a == enabledAccounts[idx] IN
       \E launch \in {"ok", "throw"}, readOk \in R, w1 \in W, w2 \in W,
          o \in InitOutcomes :
          LET ld == loadSeenMentions(mentionSeenFile[a], readOk, w1, w2) IN
          IF launch = "throw"
          THEN \* fingerprint load or chromium.launch throws, outside every try
               /\ pc' = "ended"
               /\ error' = TRUE
               /\ prevExit' = "ended"
               /\ initFail' = "launch"
               /\ screenshot' = "none"
               /\ logins' = <<>>
               /\ loginCheck' = "none"
               /\ UNCHANGED <<idx, sessionVars, seenMentionKeys, mentionSeenFile, delayed>>
          ELSE IF o.check = "contextThrow"
          THEN \* browser.newContext / addInitScript throws: caught, browser closed
               /\ browser' = [browser EXCEPT ![a] = "closed"]
               /\ initFail' = "init"
               /\ screenshot' = "none"
               /\ logins' = <<>>
               /\ loginCheck' = "none"
               /\ idx' = idx + 1
               /\ UNCHANGED <<pc, exitVars, sessions, bot, seenMentionKeys, mentionSeenFile>>
          ELSE IF ld.threw
          THEN \* the constructor throws out of loadSeenMentions
               /\ mentionSeenFile' = [mentionSeenFile EXCEPT ![a] = ld.file]
               /\ browser' = [browser EXCEPT ![a] = "closed"]
               /\ initFail' = "persistence"
               /\ screenshot' = "none"
               /\ logins' = <<>>
               /\ loginCheck' = "none"
               /\ idx' = idx + 1
               /\ UNCHANGED <<pc, exitVars, sessions, bot, seenMentionKeys>>
          ELSE IF InitThrows(o)
          THEN \* bot.init throws: login wrote its screenshot before throwing
               /\ mentionSeenFile' = [mentionSeenFile EXCEPT ![a] = ld.file]
               /\ screenshot' = InitShot(o)
               /\ logins' = o.logins
               /\ loginCheck' = o.check
               /\ browser' = [browser EXCEPT ![a] = "closed"]
               /\ initFail' = "init"
               /\ idx' = idx + 1
               /\ UNCHANGED <<pc, exitVars, sessions, bot, seenMentionKeys>>
          ELSE /\ mentionSeenFile' = [mentionSeenFile EXCEPT ![a] = ld.file]
               /\ seenMentionKeys' = [seenMentionKeys EXCEPT ![a] = ld.seen]
               /\ bot' = [bot EXCEPT ![a] = TRUE]
               /\ browser' = [browser EXCEPT ![a] = "open"]
               /\ sessions' = Append(sessions, a)
               /\ initFail' = "none"
               /\ screenshot' = InitShot(o)
               /\ logins' = o.logins
               /\ loginCheck' = o.check
               /\ idx' = idx + 1
               /\ UNCHANGED <<pc, exitVars>>
    /\ UNCHANGED <<configVars, simVars, calcVars, captureVars, tally, cycle, notifications, mention, result, steps, threw,
                   path, persistOk, handled, failedKeys, durable, lastDiscovery, entered>>

InitializeBotSession == InitializeBotSessionIO(BOOLEAN, WriteOutcomes)

\* The initialisation loop is over: leave if no session exists, else enter
\* the try / while (true) of runMonitorMode.
InitLoopDone ==
    /\ pc = "init"
    /\ idx > Len(enabledAccounts)
    /\ IF ~LoopEntered(sessions)
       THEN /\ pc' = "ended"
            /\ prevExit' = "ended"
            /\ entered' = FALSE
            /\ UNCHANGED <<initFail, screenshot, logins, loginCheck>>
       ELSE /\ pc' = "cycle"
            /\ entered' = TRUE
            /\ initFail' = "none"
            /\ screenshot' = "none"
            /\ logins' = <<>>
            /\ loginCheck' = "none"
            /\ UNCHANGED prevExit
    /\ UNCHANGED <<configVars, simVars, calcVars, captureVars, tally, idx, sessionVars, storeVars, cycle, notifications,
                   mention, result, steps, threw, path, persistOk, error, lastDiscovery,
                   delayed>>

\* A monitoring cycle starts: the for loop over sessions begins.
StartCycle ==
    /\ pc = "cycle"
    /\ cycle < MaxCycles
    /\ cycle' = cycle + 1
    /\ idx' = 1
    /\ pc' = "task"
    /\ UNCHANGED <<configVars, simVars, calcVars, captureVars, tally, sessionVars, storeVars, attemptVars, exitVars,
                   notifications, lastDiscovery, initFail, logins, loginCheck, entered>>

\* The finally block of runMonitorMode: browser.close() for every session
\* (n is the index of the session whose task was running).
CloseAllBrowsers_current(sess, br, n) == [br EXCEPT ![sess[n]] = "closed"]
CloseAllBrowsers(sess, br, n) ==
    [a \in Accounts |-> IF \E i \in 1..Len(sess) : sess[i] = a THEN "closed" ELSE br[a]]

(* ---------------- runMentionReplyTask ---------------- *)
\* runMentionReplyTask starts: collectMentionNotifications either throws
\* (navigation, or the main feed not visible in time) or returns a list.
CollectMentionNotifications ==
    /\ pc = "task"
    /\ \E ok \in BOOLEAN, found \in SeqsUpTo(Mentions, MaxQueue) :
          IF ~ok
          THEN \* nothing catches below runMonitorMode: its catch rethrows and
               \* its finally closes the browsers of all sessions
               /\ lastDiscovery' = "threw"
               /\ error' = TRUE
               /\ pc' = "ended"
               /\ prevExit' = "ended"
               /\ browser' = CloseAllBrowsers(sessions, browser, idx)
               /\ UNCHANGED <<notifications, delayed>>
          ELSE /\ lastDiscovery' = "ok"
               /\ notifications' = found
               /\ pc' = IF found = <<>> THEN "next" ELSE "loop"
               /\ UNCHANGED <<exitVars, browser>>
    /\ tally' = NoTally
    /\ UNCHANGED <<configVars, simVars, calcVars, captureVars, idx, sessions, bot, storeVars, attemptVars, cycle,
                   initFail, logins, loginCheck, entered>>

\* Loop head, mention already seen: continue.
SkipSeenMention ==
    /\ pc = "loop"
    /\ notifications # <<>>
    /\ AlreadySeen(seenMentionKeys[Current], Head(notifications).key)
    /\ notifications' = Tail(notifications)
    /\ UNCHANGED <<configVars, simVars, calcVars, captureVars, tally, pc, idx, sessionVars, storeVars, attemptVars, exitVars,
                   cycle, lastDiscovery, initFail, logins, loginCheck, entered>>

\* Loop head, mention not seen: replyToMention(mention) runs to its result.
ReplyToMention ==
    /\ pc = "loop"
    /\ notifications # <<>>
    /\ ~AlreadySeen(seenMentionKeys[Current], Head(notifications).key)
    /\ \E p \in ReplyPaths :
          LET m == Head(notifications) IN
          /\ mention' = Some(m)
          /\ result' = ReplyResult(m, Current, p)
          /\ steps' = ReplySteps(m, Current, p)
          /\ threw' = ReplyThrew(m, Current, p)
          /\ screenshot' = ReplyShot(m, Current, p)
          /\ path' = ReplyPath(m, Current, p)
    /\ notifications' = Tail(notifications)
    /\ pc' = "outcome"
    /\ UNCHANGED <<configVars, simVars, calcVars, captureVars, tally, idx, sessionVars, storeVars, persistOk, exitVars, cycle,
                   lastDiscovery, initFail, logins, loginCheck, entered>>

\* if (result === 'SUCCESS') replied++; if (result === 'SKIPPED') skipped++;
\* if (result === 'FAILED') failed++;
Tally(t, r) ==
    [replied |-> t.replied + (IF r = "SUCCESS" THEN 1 ELSE 0),
     skipped |-> t.skipped + (IF r = "SKIPPED" THEN 1 ELSE 0),
     failed |-> t.failed + (IF r = "FAILED" THEN 1 ELSE 0)]

\* After replyToMention: markMentionSeen unless FAILED (add, then rewrite the
\* file), then the tallies; W as in InitializeBotSessionIO.
HandleOutcomeIO(W) ==
    /\ pc = "outcome"
    /\ LET a == Current
           k == mention[1].key
       IN IF ShouldMark(result)
          THEN \E w \in W :
                 LET s == SeenAdd(seenMentionKeys[a], k) IN
                 /\ seenMentionKeys' = [seenMentionKeys EXCEPT ![a] = s]
                 /\ mentionSeenFile' = [mentionSeenFile EXCEPT ![a] =
                                           persistSeenMentions(@, s, w)]
                 /\ persistOk' = w
                 /\ durable' = [durable EXCEPT ![a] = IF w = "ok" THEN @ \cup s ELSE @]
                 /\ handled' = [handled EXCEPT ![a] = @ \cup {k}]
                 /\ failedKeys' = [failedKeys EXCEPT ![a] = @ \ {k}]
          ELSE /\ failedKeys' = [failedKeys EXCEPT ![a] = @ \cup {k}]
               /\ UNCHANGED <<seenMentionKeys, mentionSeenFile, persistOk, durable, handled>>
    /\ tally' = Tally(tally, result)
    /\ pc' = "pace"
    /\ UNCHANGED <<configVars, simVars, calcVars, captureVars, idx, sessionVars, cycle, notifications, mention, result,
                   steps, threw, screenshot, path, exitVars, lastDiscovery, initFail, logins, loginCheck, entered>>

HandleOutcome == HandleOutcomeIO(WriteOutcomes)

\* The process dies inside persistSeenMentions, after writeFileSync truncated
\* the file and before the new content is complete.
CrashDuringPersist ==
    /\ pc = "outcome"
    /\ ShouldMark(result)
    /\ mentionSeenFile' = [mentionSeenFile EXCEPT ![Current] = FileGarbage]
    /\ pc' = "off"
    /\ prevExit' = "crash"
    /\ MemoryCleared
    /\ UNCHANGED <<configVars, simVars, calcVars, captureVars, durable>>

\* randomDelay(actionDelays.min, actionDelays.max) at the end of the loop body.
PacingDelay ==
    /\ pc = "pace"
    /\ pc' = "loop"
    /\ mention' = Undefined
    /\ result' = "SKIPPED"
    /\ steps' = <<>>
    /\ threw' = FALSE
    /\ screenshot' = "none"
    /\ persistOk' = "ok"
    /\ path' = "none"
    /\ UNCHANGED <<configVars, simVars, calcVars, captureVars, tally, idx, sessionVars, storeVars, exitVars, cycle,
                   notifications, lastDiscovery, initFail, logins, loginCheck, entered>>

\* The queue is exhausted: summary line, runMentionReplyTask returns.
TaskDone ==
    /\ pc = "loop"
    /\ notifications = <<>>
    /\ pc' = "next"
    /\ tally' = NoTally
    /\ UNCHANGED <<configVars, simVars, calcVars, captureVars, idx, sessionVars, storeVars, attemptVars, exitVars, cycle,
                   notifications, lastDiscovery, initFail, logins, loginCheck, entered>>

(* ---------------- the rest of the monitoring cycle ---------------- *)
\* sessions.length > 1
NeedsInterAccountDelay_never(sess) == FALSE
NeedsInterAccountDelay(sess) == Len(sess) > 1

\* End of the for-loop body: delay(8000 + Math.random() * 12000) when there
\* are several sessions, then the next session or the end of the cycle.
NextSession ==
    /\ pc = "next"
    /\ delayed' = NeedsInterAccountDelay(sessions)
    /\ idx' = idx + 1
    /\ pc' = IF idx + 1 > Len(sessions) THEN "cycleWait" ELSE "task"
    /\ lastDiscovery' = "none"
    /\ UNCHANGED <<configVars, simVars, calcVars, captureVars, tally, sessionVars, storeVars, attemptVars, error, prevExit,
                   cycle, notifications, initFail, logins, loginCheck, entered>>

\* delay(waitSeconds * 1000) between two cycles.
CycleWait ==
    /\ pc = "cycleWait"
    /\ pc' = "cycle"
    /\ UNCHANGED <<configVars, simVars, calcVars, captureVars, tally, idx, sessionVars, storeVars, attemptVars, exitVars, cycle,
                   notifications, lastDiscovery, initFail, logins, loginCheck, entered>>

(* ---------------- test-comment mode ---------------- *)
\* runTestCommentMode's choice of account: its index among the enabled
\* accounts, or 0 when the mode returns without one.
AccountToUse(testUsername) ==
    IF testUsername = Undefined
    THEN IF enabledAccounts = <<>> THEN 0 ELSE 1
    ELSE IF \E n \in 1..Len(enabledAccounts) : enabledAccounts[n] = testUsername[1]
         THEN CHOOSE n \in 1..Len(enabledAccounts) : enabledAccounts[n] = testUsername[1]
         ELSE 0

\* The process starts in test-comment mode: runTestCommentMode up to the
\* call of launchBotForTask.
RunTestCommentMode ==
    /\ pc \in {"off", "ended"}
    /\ run < MaxRuns
    /\ run' = run + 1
    /\ FreshMemory
    /\ \E testUsername \in {Undefined, Some("bot1"), Some("bot2"), Some("ghost")}, hasTargets \in BOOLEAN :
          LET n == AccountToUse(testUsername) IN
          IF n = 0 \/ ~hasTargets
          THEN /\ pc' = "ended"
               /\ prevExit' = "ended"
               /\ idx' = 1
          ELSE /\ pc' = "launch"
               /\ idx' = n
               /\ UNCHANGED prevExit
    /\ UNCHANGED <<enabledAccounts, mentionSeenFile, durable, simVars, calcVars, captureVars>>

\* Why initializeBotSession gives no session, or "none".
InitFailure(launch, o, ld) ==
    CASE launch = "throw" -> "launch"
      [] o.check = "contextThrow" -> "init"
      [] ld.threw -> "persistence"
      [] InitThrows(o) -> "init"
      [] OTHER -> "none"

\* launchBotForTask up to the call of runCommentTask: initializeBotSession,
\* and LAUNCH_ERROR when it gives no session.
LaunchBotForTask ==
    /\ pc = "launch"
    /\ LET a == enabledAccounts[idx] IN
       \E launch \in {"ok", "throw"}, readOk \in BOOLEAN, w1 \in WriteOutcomes,
          w2 \in WriteOutcomes, o \in InitOutcomes :
          LET ld == loadSeenMentions(mentionSeenFile[a], readOk, w1, w2)
              f == InitFailure(launch, o, ld)
          IN /\ initFail' = f
             /\ mentionSeenFile' = IF launch = "ok" /\ o.check # "contextThrow"
                                   THEN [mentionSeenFile EXCEPT ![a] = ld.file]
                                   ELSE mentionSeenFile
             /\ screenshot' = IF f \in {"launch", "persistence"} THEN "none" ELSE InitShot(o)
             /\ logins' = IF f \in {"launch", "persistence"} THEN <<>> ELSE o.logins
             /\ loginCheck' = IF f \in {"launch", "persistence"} \/ o.check = "contextThrow"
                              THEN "none" ELSE o.check
             /\ browser' = [browser EXCEPT ![a] = CASE f = "launch" -> @
                                                    [] f = "none" -> "open"
                                                    [] OTHER -> "closed"]
             /\ bot' = [bot EXCEPT ![a] = (f = "none")]
             /\ seenMentionKeys' = IF f = "none"
                                   THEN [seenMentionKeys EXCEPT ![a] = ld.seen]
                                   ELSE seenMentionKeys
             /\ sessions' = IF f = "none" THEN <<a>> ELSE sessions
             /\ idx' = IF f = "none" THEN 1 ELSE idx
             /\ pc' = IF f = "none" THEN "comment" ELSE "ended"
             /\ error' = (f = "launch")
             /\ prevExit' = IF f = "none" THEN prevExit ELSE "ended"
    /\ UNCHANGED <<configVars, simVars, calcVars, captureVars, tally, cycle, notifications, mention, result, steps, threw,
                   path, persistOk, handled, failedKeys, durable, lastDiscovery, entered,
                   delayed>>

\* bot.runCommentTask(targetUsername, aiPromptHint) runs to its result.
RunCommentTask ==
    /\ pc = "comment"
    /\ \E p \in CommentPaths :
          /\ path' = p
          /\ result' = CommentResult(p)
          /\ steps' = CommentSteps(p)
          /\ threw' = (p \in CommentThrowPaths)
          /\ screenshot' = CommentShot(p)
    /\ pc' = "commentDone"
    /\ UNCHANGED <<configVars, simVars, calcVars, captureVars, tally, idx, sessionVars, storeVars, mention, persistOk,
                   exitVars, cycle, notifications, lastDiscovery, initFail, logins, loginCheck, entered>>

\* The finally block of launchBotForTask, and the end of the mode.
LaunchBotForTaskFinally ==
    /\ pc = "commentDone"
    /\ browser' = [browser EXCEPT ![Current] = "closed"]
    /\ pc' = "ended"
    /\ prevExit' = "ended"
    /\ UNCHANGED <<configVars, simVars, calcVars, captureVars, tally, idx, sessions, bot, storeVars, attemptVars, error,
                   delayed, cycle, notifications, lastDiscovery, initFail, logins, loginCheck, entered>>

Next ==
    \/ RunMonitorMode
    \/ Crash
    \/ InitializeBotSession
    \/ InitLoopDone
    \/ StartCycle
    \/ CollectMentionNotifications
    \/ SkipSeenMention
    \/ ReplyToMention
    \/ HandleOutcome
    \/ CrashDuringPersist
    \/ PacingDelay
    \/ TaskDone
    \/ NextSession
    \/ CycleWait

Spec == Init /\ [][Next]_vars

\* The same program on a file system whose reads and writes never fail: the
\* only disturbance left is the death of the process.
NextCrashOnly ==
    \/ RunMonitorMode
    \/ Crash
    \/ InitializeBotSessionIO({TRUE}, {"ok"})
    \/ InitLoopDone
    \/ StartCycle
    \/ CollectMentionNotifications
    \/ SkipSeenMention
    \/ ReplyToMention
    \/ HandleOutcomeIO({"ok"})
    \/ CrashDuringPersist
    \/ PacingDelay
    \/ TaskDone
    \/ NextSession
    \/ CycleWait

SpecCrashOnly == Init /\ [][NextCrashOnly]_vars

\* The program with both of its modes: monitor mode and test-comment mode.
NextModes ==
    \/ Next
    \/ RunTestCommentMode
    \/ LaunchBotForTask
    \/ RunCommentTask
    \/ LaunchBotForTaskFinally

SpecModes == Init /\ [][NextModes]_vars

\* One run of the process with every account of the configuration enabled.
NextFleet ==
    \/ RunMonitorModeUpTo(1)
    \/ Crash
    \/ InitializeBotSession
    \/ InitLoopDone
    \/ StartCycle
    \/ CollectMentionNotifications
    \/ SkipSeenMention
    \/ ReplyToMention
    \/ HandleOutcome
    \/ CrashDuringPersist
    \/ PacingDelay
    \/ TaskDone
    \/ NextSession
    \/ CycleWait

SpecFleet == InitWith(FleetConfigs) /\ [][NextFleet]_vars


(* ---------------- HumanBehavior (interaction simulator) ---------------- *)
\* An operation of HumanBehavior is the sequence of primitive steps it
\* performs on the page, in order: "check" is a call of checkForPause, "wait"
\* a page.waitForTimeout, "char" a typed character of the text and "charWait"
\* the wait after it, "typo" an injected wrong keystroke, "move" a
\* page.mouse.move and "moveWait" the wait after it.
RECURSIVE Repeat(_, _)
Repeat(seq, k) == IF k = 0 THEN <<>> ELSE seq \o Repeat(seq, k - 1)

\* randomDelay and randomizedWait: the check, then one wait (in developer
\* mode a fixed short one).
randomDelay == <<"check", "wait">>
randomizedWait == <<"check", "wait">>

\* naturalMouseMovement with k iterations of its loop (k = 0: boundingBox or
\* viewportSize gave null and the function returned).
naturalMouseMovement(k) == Repeat(<<"move", "moveWait">>, k)

\* Which characters of a text of length n get a typo injected: never the last.
TypoPatterns(n) == {t \in [1..n -> BOOLEAN] : n > 0 => ~t[n]}

\* One iteration of the typing loop.
TypeChar(typo) ==
    (IF typo THEN <<"typo">> \o randomDelay \o <<"backspace">> \o randomDelay ELSE <<>>)
        \o <<"char", "charWait">>

RECURSIVE TypeChars(_, _)
TypeChars(typos, i) ==
    IF i > Len(typos) THEN <<>> ELSE TypeChar(typos[i]) \o TypeChars(typos, i + 1)

naturalTyping(dev, typos) ==
    IF dev THEN <<"check", "fill">>
    ELSE <<"check", "click">> \o randomDelay \o TypeChars(typos, 1)

hesitateAndClick(dev, k, retreat) ==
    IF dev THEN <<"check", "click">>
    ELSE <<"check">> \o naturalMouseMovement(k)
            \o (IF retreat /\ k > 0
                THEN <<"move">> \o randomDelay \o naturalMouseMovement(k)
                ELSE <<>>)
            \o randomDelay \o <<"mousedown", "wait", "mouseup", "clickEvent">>

jitteryMovement(dev, k) == IF dev THEN <<>> ELSE naturalMouseMovement(k)

\* moveMouseRandomly with k iterations of its loop (k = 0: no viewport).
moveMouseRandomly(dev, k) ==
    IF dev \/ k = 0 THEN <<>> ELSE Repeat(<<"move", "moveWait">>, k) \o randomDelay

\* The calls of the public operations a caller can make in mode dev.
Calls(dev) ==
    {[op |-> "randomDelay", steps |-> randomDelay],
     [op |-> "randomizedWait", steps |-> randomizedWait]}
    \cup {[op |-> "naturalTyping", steps |-> naturalTyping(dev, t)] :
             t \in UNION {TypoPatterns(n) : n \in 0..MaxText}}
    \cup {[op |-> "hesitateAndClick", steps |-> hesitateAndClick(dev, k, r)] :
             k \in 0..MaxPoints, r \in BOOLEAN}
    \cup {[op |-> "jitteryMovement", steps |-> jitteryMovement(dev, k)] : k \in 0..MaxPoints}
    \cup {[op |-> "moveMouseRandomly", steps |-> moveMouseRandomly(dev, k)] :
             k \in 0..MaxPoints}

\* checkForPause, for the value of pauseState.shouldPause it reads: the value
\* it leaves, and whether it awaits page.pause().
checkForPause_keepFlag(flag) == [flag |-> flag, suspend |-> flag]
checkForPause_ignore(flag) == [flag |-> flag, suspend |-> FALSE]
checkForPause(flag) == [flag |-> FALSE, suspend |-> flag]

\* The orchestrators await every call of a simulator, and runMonitorMode
\* awaits every task: a simulator is called while no other call is in progress.
CanStart_concurrent(s) == simOp[s] = "idle"
CanStart(s) == \A a \in Accounts : simOp[a] = "idle"

\* What the running simulator did last, as the keypress handler finds it.
RequestContext ==
    IF \E s \in Accounts : simPaused[s] THEN "suspended"
    ELSE IF \E s \in Accounts : last[s] \in {"char", "charWait"} THEN "typing"
    ELSE IF \E s \in Accounts : last[s] \in {"move", "moveWait"} THEN "pointer"
    ELSE "other"

\* An orchestrator calls an operation of its simulator.
SimCall(s) ==
    /\ CanStart(s)
    /\ \E c \in Calls(developerMode) :
          /\ simOp' = [simOp EXCEPT ![s] = c.op]
          /\ program' = [program EXCEPT ![s] = c.steps]
    /\ checked' = [checked EXCEPT ![s] = FALSE]
    /\ last' = [last EXCEPT ![s] = "none"]
    /\ UNCHANGED <<monitorVars, calcVars, captureVars, shouldPause, developerMode, simPaused, requestedDuring,
                   requests, suspensions>>

\* The operation in progress performs its next primitive step.
SimStep(s) ==
    /\ simOp[s] # "idle"
    /\ ~simPaused[s]
    /\ program[s] # <<>>
    /\ IF Head(program[s]) = "check"
       THEN LET c == checkForPause(shouldPause) IN
            /\ shouldPause' = c.flag
            /\ simPaused' = [simPaused EXCEPT ![s] = c.suspend]
            /\ program' = [program EXCEPT ![s] = IF c.suspend THEN @ ELSE Tail(@)]
            /\ checked' = [checked EXCEPT ![s] = TRUE]
            /\ requestedDuring' = IF c.flag THEN requestedDuring ELSE "none"
            /\ suspensions' = IF c.suspend THEN suspensions + 1 ELSE suspensions
            /\ UNCHANGED last
       ELSE /\ program' = [program EXCEPT ![s] = Tail(@)]
            /\ last' = [last EXCEPT ![s] = Head(program[s])]
            /\ UNCHANGED <<shouldPause, simPaused, checked, requestedDuring, suspensions>>
    /\ UNCHANGED <<monitorVars, calcVars, captureVars, developerMode, simOp, requests>>

\* What checkForPause leaves in pauseState.shouldPause once page.pause() has
\* returned: it writes the flag before the await only, and returns.
AfterPause_clear(flag) == FALSE
AfterPause(flag) == flag

\* The operator resumes the script: page.pause() returns to checkForPause.
Resume(s) ==
    /\ simPaused[s]
    /\ simPaused' = [simPaused EXCEPT ![s] = FALSE]
    /\ program' = [program EXCEPT ![s] = Tail(@)]
    /\ shouldPause' = AfterPause(shouldPause)
    /\ requestedDuring' = IF shouldPause' THEN requestedDuring ELSE "none"
    /\ UNCHANGED <<monitorVars, calcVars, captureVars, developerMode, simOp, checked, last,
                   requests, suspensions>>

\* The operation returns to its caller.
SimReturn(s) ==
    /\ simOp[s] # "idle"
    /\ program[s] = <<>>
    /\ simOp' = [simOp EXCEPT ![s] = "idle"]
    /\ checked' = [checked EXCEPT ![s] = FALSE]
    /\ last' = [last EXCEPT ![s] = "none"]
    /\ UNCHANGED <<monitorVars, calcVars, captureVars, shouldPause, developerMode, program, simPaused,
                   requestedDuring, requests, suspensions>>

\* The keypress handler of main: CTRL+C ends the process, 'i' requests a
\* pause, every other key is ignored.
Keypress ==
    \E key \in {"i", "ctrl-c", "other"} :
       CASE key = "ctrl-c" ->
              /\ shouldPause' = FALSE
              /\ simOp' = [a \in Accounts |-> "idle"]
              /\ program' = [a \in Accounts |-> <<>>]
              /\ simPaused' = NoAccounts
              /\ checked' = NoAccounts
              /\ last' = [a \in Accounts |-> "none"]
              /\ requestedDuring' = "none"
              /\ requests' = 0
              /\ suspensions' = 0
              /\ UNCHANGED <<monitorVars, calcVars, captureVars, developerMode>>
         [] key = "i" ->
              /\ shouldPause \/ requests < MaxRequests
              /\ shouldPause' = TRUE
              /\ requestedDuring' = IF shouldPause THEN requestedDuring ELSE RequestContext
              /\ requests' = IF shouldPause THEN requests ELSE requests + 1
              /\ UNCHANGED <<monitorVars, calcVars, captureVars, developerMode, simOp, program, simPaused, checked,
                             last, suspensions>>
         [] OTHER -> UNCHANGED vars

InitSimulator ==
    /\ InitMonitor(FleetConfigs)
    /\ developerMode \in BOOLEAN
    /\ SimulatorsIdle
    /\ CalcIdle
    /\ CaptureIdle

NextSimulator ==
    \/ \E s \in Accounts : SimCall(s)
    \/ \E s \in Accounts : SimStep(s)
    \/ \E s \in Accounts : Resume(s)
    \/ \E s \in Accounts : SimReturn(s)
    \/ Keypress

SpecSimulator == InitSimulator /\ [][NextSimulator]_vars

\* A call of an operation that starts with checkForPause. Every task of the
\* orchestrator makes such calls again and again: jitteryMovement is always
\* followed by randomDelay, and every other operation it uses starts with the
\* check or, like moveMouseRandomly, ends with randomDelay.
CheckingCall == \E s \in Accounts : SimCall(s) /\ program'[s] # <<>> /\ Head(program'[s]) = "check"

\* The simulators under a task that keeps running: an operation in progress
\* goes on to its end and returns, and the task keeps calling operations.
FairSimulator ==
    /\ WF_vars(\E s \in Accounts : SimStep(s))
    /\ WF_vars(\E s \in Accounts : SimReturn(s))
    /\ SF_vars(CheckingCall)

SpecSimulatorLive == SpecSimulator /\ FairSimulator

(* ---------------- functions evaluated on their own ---------------- *)
\* --- naturalTyping: the keystrokes it emits ---
\* Characters of the texts typed, and the letters a 'wrong' typo can draw.
Alphabet == {"a", "s", "z"}
WrongLetters == {"q", "a"}

\* const adjacent = { a: 's', s: 'a', ... }; adjacent[char.toLowerCase()] || 'x'
Adjacent(c) == CASE c = "a" -> "s" [] c = "s" -> "a" [] OTHER -> "x"

\* What the typo branch does for one character: nothing, or one of the three
\* typo types ('wrong' with the letter drawn).
TypoChoices == {[kind |-> "none", letter |-> ""], [kind |-> "double", letter |-> ""],
                [kind |-> "adjacent", letter |-> ""]}
               \cup {[kind |-> "wrong", letter |-> l] : l \in WrongLetters}

\* The character the typo branch types for character c.
TypoChar(c, typo) ==
    CASE typo.kind = "double" -> c
      [] typo.kind = "adjacent" -> Adjacent(c)
      [] OTHER -> typo.letter

\* Keys of one iteration of the typing loop: keyboard.type and
\* keyboard.press('Backspace') calls in order.
KeysForChar_noBackspace(c, typo) ==
    (IF typo.kind = "none" THEN <<>> ELSE <<[key |-> "type", char |-> TypoChar(c, typo)]>>)
       \o <<[key |-> "type", char |-> c]>>
KeysForChar(c, typo) ==
    (IF typo.kind = "none"
     THEN <<>>
     ELSE <<[key |-> "type", char |-> TypoChar(c, typo)], [key |-> "Backspace", char |-> ""]>>)
       \o <<[key |-> "type", char |-> c]>>

RECURSIVE Keystrokes(_, _, _)
Keystrokes(text, typos, i) ==
    IF i > Len(text) THEN <<>>
    ELSE KeysForChar(text[i], typos[i]) \o Keystrokes(text, typos, i + 1)

\* A text field receiving keys: a typed character is appended, Backspace
\* removes the last character.
RECURSIVE ApplyKeys(_, _)
ApplyKeys(field, keys) ==
    IF keys = <<>> THEN field
    ELSE ApplyKeys(IF Head(keys).key = "type"
                   THEN Append(field, Head(keys).char)
                   ELSE SubSeq(field, 1, Len(field) - 1),
                   Tail(keys))

\* naturalTyping on an empty field: the keys emitted and the content left
\* (developer mode: element.fill(text), no key).
TypingOutcome(dev, text, typos) ==
    IF dev THEN [keys |-> <<>>, field |-> text]
    ELSE LET keys == Keystrokes(text, typos, 1) IN
         [keys |-> keys, field |-> ApplyKeys(<<>>, keys)]

\* Texts of up to MaxText characters with the typo drawn for each character:
\* Math.random() < typoChance && i < text.length - 1 excludes the last one.
TypingInputs ==
    UNION {{[text |-> t, typos |-> y] :
               t \in [1..n -> Alphabet],
               y \in {z \in [1..n -> TypoChoices] : n > 0 => z[n].kind = "none"}} :
           n \in 0..MaxText}

EvalNaturalTyping ==
    /\ fn = "naturalTyping"
    /\ value = <<>>
    /\ value' = <<TypingOutcome(developerMode, args.text, args.typos)>>
    /\ UNCHANGED <<monitorVars, simVars, fn, args, captureVars>>

\* --- randomDelay: the duration it waits ---
\* Arithmetic is exact: a window bound is a number of half milliseconds, a
\* value of Math.random() is j / RandomSteps with 0 <= j < RandomSteps, and a
\* duration is the fraction num / DelayDen of a millisecond.
Randoms == 0..(RandomSteps - 1)

\* await this.page.waitForTimeout(50)
DevDelayMs == 50

DelayDen == 10 * RandomSteps * RandomSteps

\* Math.floor(Math.random() * (max - min) + min), in whole milliseconds.
BaseDelay(min, max, j) == (RandomSteps * min + j * (max - min)) \div (2 * RandomSteps)

\* 0.8 + Math.random() * 0.4, in tenths times RandomSteps.
SessionFactor_wide(j) == 5 * RandomSteps + 4 * j
SessionFactor(j) == 8 * RandomSteps + 4 * j

\* Math.random() < 0.05
LongPause(j) == 100 * j < 5 * RandomSteps

\* 2 + Math.random() * 3, times RandomSteps.
LongFactor(j) == 2 * RandomSteps + 3 * j

\* The duration randomDelay(min, max) passes to waitForTimeout for the four
\* values r that Math.random() returns, as a numerator over DelayDen.
RandomDelayNum(dev, min, max, r) ==
    IF dev THEN DevDelayMs * DelayDen
    ELSE BaseDelay(min, max, r[1]) * SessionFactor(r[2])
            * (IF LongPause(r[3]) THEN LongFactor(r[4]) ELSE RandomSteps)

DelayInputs ==
    {[min |-> a, max |-> b, r |-> r] :
        a \in 0..MaxWindow, b \in 0..MaxWindow, r \in [1..4 -> Randoms]}

EvalRandomDelay ==
    /\ fn = "randomDelay"
    /\ value = <<>>
    /\ value' = <<RandomDelayNum(developerMode, args.min, args.max, args.r)>>
    /\ UNCHANGED <<monitorVars, simVars, fn, args, captureVars>>

\* --- buildMentionKey: the key of a mention ---
\* The arguments collectMentionNotifications can pass: the post link; the
\* commenter, undefined when the item has no profile link; the comment text,
\* undefined when the item text does not match and possibly empty after the
\* age suffix is stripped. Texts are free text and may hold the separator.
KeyCalls ==
    {[account |-> a, postUrl |-> p, commenterUsername |-> c, commentText |-> t] :
        a \in Accounts,
        p \in {"P1", "P2"},
        c \in {Undefined, Some(""), Some("a"), Some("a|b")},
        t \in {Undefined, Some(""), Some("c"), Some("b|c")}}

Triple(call) == <<call.postUrl, call.commenterUsername, call.commentText>>

\* this.buildMentionKey(postUrl, commenterUsername, commentText) on the
\* InstagramBot of an account.
BuildMentionKeyOn_salted(call) ==
    Sha1Hex(call.account \o "|" \o call.postUrl \o "|" \o OrEmpty(call.commenterUsername)
                \o "|" \o OrEmpty(call.commentText))
BuildMentionKeyOn(call) ==
    buildMentionKey(call.postUrl, call.commenterUsername, call.commentText)

\* Two calls, one after the other; value collects the keys returned.
EvalBuildMentionKey ==
    /\ fn = "buildMentionKey"
    /\ Len(value) < Len(args)
    /\ value' = Append(value, BuildMentionKeyOn(args[Len(value) + 1]))
    /\ UNCHANGED <<monitorVars, simVars, fn, args, captureVars>>

\* --- the pacing delay of runMentionReplyTask ---
\* this.actionDelays as the constructor sets it, in milliseconds: the fixed
\* window in developer mode, else the configured seconds times 1000.
ActionDelays(dev, actionDelay) ==
    IF dev THEN [min |-> 1000, max |-> 2000]
    ELSE [min |-> actionDelay.min * 1000, max |-> actionDelay.max * 1000]

\* accountConfig.actionDelaySeconds ?? globalSettings.defaultActionDelaySeconds,
\* with the random numbers randomDelay draws.
PacingInputs ==
    {[actionDelay |-> c, r |-> r] :
        c \in {[min |-> 1, max |-> 1], [min |-> 1, max |-> 2]}, r \in [1..4 -> Randoms]}

\* randomDelay(this.actionDelays.min, this.actionDelays.max): HumanBehavior is
\* constructed with the developerMode of the orchestrator.
EvalPacingDelay ==
    /\ fn = "pacingDelay"
    /\ value = <<>>
    /\ LET w == ActionDelays(developerMode, args.actionDelay)
       IN value' = <<RandomDelayNum(developerMode, 2 * w.min, 2 * w.max, args.r)>>
    /\ UNCHANGED <<monitorVars, simVars, fn, args, captureVars>>

\* --- naturalMouseMovement: the length of the trajectory ---
\* Start and target of the pointer, in whole pixels.
Pixels == {0, 18, 450, 900} \X {0, 24}
TrajectoryInputs == {[start |-> a, target |-> b] : a \in Pixels, b \in Pixels}

\* Math.pow(targetX - startX, 2) + Math.pow(targetY - startY, 2)
SquaredDistance(start, target) ==
    (target[1] - start[1]) * (target[1] - start[1])
        + (target[2] - start[2]) * (target[2] - start[2])

\* Math.floor(Math.sqrt(d2) / 30)
FloorDistanceOver30(d2) ==
    CHOOSE k \in 0..(d2 \div 900) : 900 * k * k <= d2 /\ d2 < 900 * (k + 1) * (k + 1)

\* const points = 15 + Math.floor(distance / 30)
TrajectoryPoints(start, target) == 15 + FloorDistanceOver30(SquaredDistance(start, target))

\* for (let i = 0; i <= points; i++) ... mouse.move: the points, and the
\* number of pointer moves of the loop.
Trajectory(start, target) ==
    LET points == TrajectoryPoints(start, target)
    IN [points |-> points, moves |-> Cardinality(0..points)]

EvalNaturalMouseMovement ==
    /\ fn = "naturalMouseMovement"
    /\ value = <<>>
    /\ value' = <<Trajectory(args.start, args.target)>>
    /\ UNCHANGED <<monitorVars, simVars, fn, args, captureVars>>

InitFunctions ==
    /\ InitMonitor(FleetConfigs)
    /\ developerMode \in BOOLEAN
    /\ SimulatorsIdle
    /\ CaptureIdle
    /\ value = <<>>
    /\ \/ fn = "naturalTyping" /\ args \in TypingInputs
       \/ fn = "randomDelay" /\ args \in {d \in DelayInputs : d.min <= d.max}
       \/ fn = "buildMentionKey" /\ args \in [1..2 -> KeyCalls]
       \/ fn = "pacingDelay" /\ args \in PacingInputs
       \/ fn = "naturalMouseMovement" /\ args \in TrajectoryInputs

NextFunctions ==
    \/ EvalNaturalTyping
    \/ EvalRandomDelay
    \/ EvalBuildMentionKey
    \/ EvalPacingDelay
    \/ EvalNaturalMouseMovement

SpecFunctions == InitFunctions /\ [][NextFunctions]_vars

(* ---------------- video URL capture ---------------- *)
\* Responses the page may observe: a URL with its content-type header.
CdnVideoUrls == {"https://instagram.fbcdn.net/v1.mp4", "https://instagram.fbcdn.net/v2.mp4"}
Responses ==
    {[url |-> u, contentType |-> c] :
        u \in CdnVideoUrls \cup {"https://example.com/v.mp4"},
        c \in {Undefined, Some("video/mp4"), Some("image/jpeg")}}

\* contentType && contentType.includes('video/mp4') && url.includes('fbcdn.net')
\*   && (url.includes('instagram') || url.includes('ig'))
IsVideoResponse(r) ==
    r.contentType # Undefined /\ r.contentType[1] = "video/mp4" /\ r.url \in CdnVideoUrls

\* The page.on('response') handler of init: capturedVideoUrl after response r.
OnResponse_overwrite(capturing, captured, r) ==
    IF ~capturing THEN captured
    ELSE IF IsVideoResponse(r) THEN Some(r.url) ELSE captured
OnResponse(capturing, captured, r) ==
    IF ~capturing THEN captured
    ELSE IF captured # Undefined THEN captured
    ELSE IF IsVideoResponse(r) THEN Some(r.url) ELSE captured

\* A response arrives, whatever the orchestrator is doing.
Response ==
    \E r \in Responses :
       LET c == OnResponse(isCapturingVideo, capturedVideoUrl, r) IN
       /\ capturedVideoUrl' = c
       /\ storedIn' = IF c # capturedVideoUrl THEN attempts ELSE storedIn
       /\ storeCount' = IF c # capturedVideoUrl THEN storeCount + 1 ELSE storeCount
       /\ UNCHANGED <<monitorVars, simVars, calcVars, isCapturingVideo, op, opPc, attempts,
                      mediaVideoUrl, generatorVideoUrl>>

\* replyToMention for a mention of the account itself: the first return, then
\* the finally block.
ReplyToSelfMention ==
    /\ op = "idle"
    /\ isCapturingVideo' = FALSE
    /\ UNCHANGED <<monitorVars, simVars, calcVars, capturedVideoUrl, op, opPc, attempts,
                   mediaVideoUrl, generatorVideoUrl, storedIn, storeCount>>

\* replyToMention up to page.goto: the URL is reset, capture is switched on.
StartReplyToMention ==
    /\ op = "idle"
    /\ attempts < MaxAttempts
    /\ attempts' = attempts + 1
    /\ capturedVideoUrl' = Undefined
    /\ isCapturingVideo' = TRUE
    /\ op' = "reply"
    /\ opPc' = "opening"
    /\ mediaVideoUrl' = Undefined
    /\ generatorVideoUrl' = Undefined
    /\ storedIn' = 0
    /\ storeCount' = 0
    /\ UNCHANGED <<monitorVars, simVars, calcVars>>

\* runCommentTask up to the navigation to the profile: the URL is reset,
\* capture is off.
StartCommentTask ==
    /\ op = "idle"
    /\ attempts < MaxAttempts
    /\ attempts' = attempts + 1
    /\ capturedVideoUrl' = Undefined
    /\ isCapturingVideo' = FALSE
    /\ op' = "comment"
    /\ opPc' = "profile"
    /\ mediaVideoUrl' = Undefined
    /\ generatorVideoUrl' = Undefined
    /\ storedIn' = 0
    /\ storeCount' = 0
    /\ UNCHANGED <<monitorVars, simVars, calcVars>>

\* runCommentTask: capture is switched on before the latest post is clicked.
OpenLatestPost ==
    /\ op = "comment"
    /\ opPc = "profile"
    /\ isCapturingVideo' = TRUE
    /\ opPc' = "opening"
    /\ UNCHANGED <<monitorVars, simVars, calcVars, capturedVideoUrl, op, attempts, mediaVideoUrl,
                   generatorVideoUrl, storedIn, storeCount>>

\* The video URL the task takes for the post: the captured one if there is
\* one; else, in replyToMention, the src of the video element.
MediaVideoUrl(task, isVideo, captured, src) ==
    IF ~isVideo THEN Undefined
    ELSE IF captured # Undefined THEN captured
    ELSE IF task = "reply" THEN src ELSE Undefined

\* extractPostMedia, or the media block of runCommentTask.
ExtractPostMedia ==
    /\ opPc = "opening"
    /\ \E isVideo \in BOOLEAN, src \in {Undefined, Some("blob:video")} :
          mediaVideoUrl' = MediaVideoUrl(op, isVideo, capturedVideoUrl, src)
    /\ opPc' = "media"
    /\ UNCHANGED <<monitorVars, simVars, calcVars, capturedVideoUrl, isCapturingVideo, op, attempts,
                   generatorVideoUrl, storedIn, storeCount>>

\* The call of the content generator with the video URL of the post.
GenerateWithMedia ==
    /\ opPc = "media"
    /\ generatorVideoUrl' = mediaVideoUrl
    /\ opPc' = "generated"
    /\ UNCHANGED <<monitorVars, simVars, calcVars, capturedVideoUrl, isCapturingVideo, op, attempts,
                   mediaVideoUrl, storedIn, storeCount>>

\* The task returns or throws, at whatever position: the finally block.
TaskFinally ==
    /\ op # "idle"
    /\ isCapturingVideo' = FALSE
    /\ op' = "idle"
    /\ opPc' = "none"
    /\ UNCHANGED <<monitorVars, simVars, calcVars, capturedVideoUrl, attempts, mediaVideoUrl,
                   generatorVideoUrl, storedIn, storeCount>>

InitCapture ==
    /\ InitMonitor(FleetConfigs)
    /\ developerMode \in BOOLEAN
    /\ SimulatorsIdle
    /\ CalcIdle
    /\ CaptureIdle

NextCapture ==
    \/ Response
    \/ ReplyToSelfMention
    \/ StartReplyToMention
    \/ StartCommentTask
    \/ OpenLatestPost
    \/ ExtractPostMedia
    \/ GenerateWithMedia
    \/ TaskFinally

SpecCapture == InitCapture /\ [][NextCapture]_vars

(* ======================= properties ======================= *)
\* The step is an invocation of replyToMention by the running task.
Invoked == pc = "loop" /\ pc' = "outcome"

\* The running task is the same orchestrator instance before and after the step.
SameInstance == pc' # "off" /\ run' = run

\* C1: once an attempt of this orchestrator instance ended SUCCESS or SKIPPED
\* for a key, no later step invokes replyToMention for a mention with that
\* key, so none of its navigation, generator, typing or submit actions happens.
C1_DedupIdempotence ==
    [][Invoked => mention'[1].key \notin handled[Current]]_vars

\* A handled key is discovered again in a later cycle and is passed over.
C1_Witness ==
    /\ pc = "loop"
    /\ cycle = 2
    /\ notifications # <<>>
    /\ Head(notifications).key \in handled[Current]
    /\ steps = <<>>

\* C2: a FAILED attempt leaves seenMentionKeys as it was, without the key; and
\* whenever the loop reaches a mention whose last attempt FAILED, the next
\* step of the task invokes replyToMention for that mention.
C2_RetryOnFailure ==
    [][/\ (pc = "outcome" /\ result = "FAILED" /\ pc' = "pace")
            => /\ seenMentionKeys' = seenMentionKeys
               /\ mention[1].key \notin seenMentionKeys'[Current]
       /\ (pc = "loop" /\ notifications # <<>> /\ SameInstance
              /\ Head(notifications).key \in failedKeys[Current])
            => /\ Invoked
               /\ mention' = Some(Head(notifications))]_vars

\* A mention that FAILED in the first cycle is being attempted again in the second.
C2_Witness ==
    /\ pc = "outcome"
    /\ cycle = 2
    /\ mention[1].key \in failedKeys[Current]

\* C3: when the pacing wait is reached after a SUCCESS or SKIPPED attempt, the
\* key is in seenMentionKeys, and if the rewrite of the file succeeded the
\* file is a JSON array that contains the key.
C3_ImmediatePersistence ==
    (pc = "pace" /\ result # "FAILED")
        => /\ mention[1].key \in seenMentionKeys[Current]
           /\ persistOk = "ok"
                => /\ mentionSeenFile[Current].kind = "json"
                   /\ mention[1].key \in mentionSeenFile[Current].keys

\* A handled mention is persisted while another mention still waits in the queue.
C3_Witness ==
    /\ pc = "pace"
    /\ result = "SUCCESS"
    /\ persistOk = "ok"
    /\ notifications # <<>>
    /\ mention[1].key \in mentionSeenFile[Current].keys

\* C4: within one orchestrator instance no step removes a key from
\* seenMentionKeys.
C4_SeenAppendOnly ==
    [][SameInstance => \A a \in Accounts : seenMentionKeys[a] \subseteq seenMentionKeys'[a]]_vars

\* An instance has marked two keys, one after the other.
C4_Witness ==
    \E a \in Accounts : Cardinality(handled[a]) = 2 /\ handled[a] \subseteq seenMentionKeys[a]

\* C5: every key that was marked seen with a successful file write is in the
\* seen set of every orchestrator instance constructed afterwards.
C5_DedupSurvivesRestart ==
    \A a \in Accounts : bot[a] => durable[a] \subseteq seenMentionKeys[a]

\* C6: an attempt that left replyToMention's try block by exception has the
\* result FAILED and wrote a diagnostic screenshot.
C6_FailureScreenshot ==
    (pc = "outcome" /\ threw) => (result = "FAILED" /\ screenshot # "none")

\* C7: a failed mention discovery counts as zero mentions: the task returns
\* normally, no error leaves the monitor loop and the run goes on.
C7_DiscoveryErrorIsEmpty ==
    lastDiscovery = "threw" => (~error /\ pc # "ended")

\* C8: no failure of a read or write of the dedup file aborts an account's
\* session.
C8_PersistenceNeverFatal ==
    initFail # "persistence"

\* C9: an orchestrator constructed after a crash of the process has in its
\* seen set every key that was marked seen and persisted before the crash.
C9_CrashSafety ==
    \A a \in Accounts : (prevExit = "crash" /\ bot[a]) => durable[a] \subseteq seenMentionKeys[a]

\* C11: when an error leaves runMentionReplyTask inside a monitoring cycle,
\* the run ends with the error rethrown and the browser of every initialised
\* session closed; after that the process takes no step (no later session,
\* no later cycle) other than being started anew.
C11_FatalWithCleanup ==
    [][/\ lastDiscovery' = "threw"
            => /\ pc' = "ended"
               /\ error'
               /\ \A n \in 1..Len(sessions') : browser'[sessions'[n]] = "closed"
       /\ lastDiscovery = "threw" => run' = run + 1]_vars

\* The task of the first of two sessions threw in the second cycle: the run is
\* over with both browsers closed and the second session not visited.
C11_Witness ==
    /\ lastDiscovery = "threw"
    /\ cycle = 2
    /\ idx = 1
    /\ Len(sessions) = 2
    /\ \A a \in Accounts : browser[a] = "closed"

\* C12: a mention whose commenterUsername is the username of the account gets
\* the result SKIPPED with no navigation, pointer, keyboard or generator
\* action, and its key is in the seen set when the pacing wait is reached.
C12_SelfMentionGuard ==
    (pc \in {"outcome", "pace"} /\ mention[1].commenterUsername = Some(Current))
        => /\ result = "SKIPPED"
           /\ steps = <<>>
           /\ pc = "pace" => mention[1].key \in seenMentionKeys[Current]

\* A self-mention was attempted and marked seen.
C12_Witness ==
    /\ pc = "pace"
    /\ mention[1].commenterUsername = Some(Current)
    /\ mention[1].key \in seenMentionKeys[Current]
    /\ steps = <<>>

\* The external actions of the last attempt, as a set.
StepsDone == {steps[n] : n \in 1..Len(steps)}

\* C13: when no candidate comment is located, or the located comment has no
\* reply control, the result is SKIPPED, the content generator was not
\* called, the key is in the seen set when the pacing wait is reached, and
\* no later step of this instance invokes replyToMention for that key.
C13_ConsideredSkip ==
    /\ [](path \in {"noComment", "noReplyButton"}
            => /\ result = "SKIPPED"
               /\ "generate" \notin StepsDone
               /\ pc = "pace" => /\ mention[1].key \in seenMentionKeys[Current]
                                 /\ mention[1].key \in handled[Current])
    /\ [][Invoked => mention'[1].key \notin handled[Current]]_vars

\* A mention skipped for a missing reply control is marked seen while the
\* same mention waits once more in the queue.
C13_Witness ==
    /\ pc = "pace"
    /\ path = "noReplyButton"
    /\ "generate" \notin StepsDone
    /\ mention[1].key \in seenMentionKeys[Current]
    /\ notifications # <<>>
    /\ Head(notifications).key = mention[1].key

\* C14: when no enabled Post button exists after typing, replyToMention gives
\* FAILED with no submit click and no interaction-log row, and the key is not
\* in the seen set; runCommentTask gives FAILED in the same situation, also
\* with no submit click and no row.
C14_MissingSubmitControl ==
    /\ (pc \in {"outcome", "pace"} /\ path = "noPostButton")
          => /\ result = "FAILED"
             /\ StepsDone \cap {"clickPost", "log"} = {}
             /\ mention[1].key \notin seenMentionKeys[Current]
    /\ (pc = "commentDone" /\ path = "noPostButton")
          => /\ result = "FAILED"
             /\ StepsDone \cap {"clickPost", "log"} = {}

\* A reply was typed, the Post button was missing, and the pacing wait is
\* reached with the key unmarked.
C14_Witness ==
    /\ pc = "pace"
    /\ path = "noPostButton"
    /\ "type" \in StepsDone
    /\ mention[1].key \in failedKeys[Current]

\* C15: for a private target profile runCommentTask gives SKIPPED without
\* opening a post, calling the content generator, typing or submitting.
C15_PrivateTarget ==
    (pc = "commentDone" /\ path = "private")
        => /\ result = "SKIPPED"
           /\ StepsDone \cap {"openPost", "generate", "type", "clickPost"} = {}

\* A comment task ended at the private-profile check.
C15_Witness ==
    /\ pc = "commentDone"
    /\ path = "private"
    /\ steps = <<"gotoProfile">>

\* C16: once the submit click of runCommentTask and the wait after it
\* completed without error, the result is SUCCESS and exactly one row was
\* appended to the interaction log, whatever the search for the submitted
\* text gives.
C16_SoftVerification ==
    (pc = "commentDone" /\ "clickPost" \in StepsDone /\ path # "throwSubmit")
        => /\ result = "SUCCESS"
           /\ Cardinality({n \in 1..Len(steps) : steps[n] = "log"}) = 1

\* The step is simulator s performing the primitive step at the head of its program.
Performs(s) ==
    /\ program[s] # <<>>
    /\ ~simPaused[s]
    /\ program'[s] = Tail(program[s]) \/ (simPaused'[s] /\ Head(program[s]) = "check")

\* The step is a call of checkForPause by simulator s.
CheckStep(s) == Performs(s) /\ Head(program[s]) = "check"

\* The step leaves every simulator where it was.
SimulatorsUntouched == UNCHANGED <<simOp, program, simPaused, checked, last>>

\* The step is the end of the process: no simulator and no request is left.
ProcessExit ==
    /\ \A a \in Accounts : simOp'[a] = "idle" /\ ~simPaused'[a]
    /\ ~shouldPause'

\* C17: a checkForPause that finds the flag set clears it and suspends its
\* caller, which performs nothing until it is resumed; one that finds the
\* flag clear returns without suspending and leaves the flag clear. The flag
\* becomes set only in a step of the keypress handler, and becomes clear only
\* in a checkForPause (or with the end of the process).
C17_PauseContract ==
    [][/\ \A s \in Accounts :
            /\ CheckStep(s) => (~shouldPause' /\ (simPaused'[s] <=> shouldPause))
            /\ (simPaused[s] /\ simPaused'[s]) => program'[s] = program[s]
            /\ (simPaused[s] /\ ~simPaused'[s] /\ ~ProcessExit)
                   => program'[s] = Tail(program[s])
       /\ (~shouldPause /\ shouldPause') => SimulatorsUntouched
       /\ (shouldPause /\ ~shouldPause')
            => (ProcessExit \/ \E s \in Accounts : CheckStep(s))]_vars

\* A simulator is suspended inside checkForPause with the flag cleared.
C17_Witness ==
    \E s \in Accounts :
       /\ simPaused[s]
       /\ ~shouldPause
       /\ Head(program[s]) = "check"

\* C18: an operation in progress performs a pointer, keyboard or wait step
\* only after it has called checkForPause.
C18_CheckBeforeAction ==
    [][\A s \in Accounts :
          (Performs(s) /\ Head(program[s]) # "check") => checked[s]]_vars

\* C19: in naturalTyping no character of the text is typed while a pause is
\* pending that was requested after an earlier character was typed, and no
\* pointer step is made while a pause is pending that was requested after an
\* earlier pointer step of the trajectory.
C19_PerStepPause ==
    [][\A s \in Accounts :
          /\ (Performs(s) /\ Head(program[s]) = "char")
                => ~(shouldPause /\ requestedDuring = "typing")
          /\ (Performs(s) /\ Head(program[s]) = "move")
                => ~(shouldPause /\ requestedDuring = "pointer")]_vars

\* C21: a pause requested while the script is running (no simulator is
\* suspended) is eventually observed: the flag is cleared, which only a
\* checkForPause that suspends its caller (or the end of the process) does.
C21_PauseLiveness ==
    (shouldPause /\ \A s \in Accounts : ~simPaused[s]) ~> ~shouldPause

\* A pause is requested in the middle of an operation that never checks.
C21_Witness ==
    \E s \in Accounts :
       /\ shouldPause
       /\ simOp[s] = "jitteryMovement"
       /\ program[s] # <<>>
       /\ last[s] = "move"

\* Positions of a key sequence that hold the key k.
KeyPositions(keys, k) == {n \in 1..Len(keys) : keys[n].key = k}

\* Characters of the text for which a typo was injected.
TypoEvents(typos) == {n \in 1..Len(typos) : typos[n].kind # "none"}

\* C22: the keys naturalTyping emits leave exactly the input text in an
\* initially empty field; there are as many Backspace presses as injected
\* typos, every Backspace directly follows one extra typed character and is
\* directly followed by the character of the text; in developer mode the
\* field holds the text and no key is emitted.
C22_TypingNetEffect ==
    (fn = "naturalTyping" /\ value # <<>>)
        => LET keys == value[1].keys
               back == KeyPositions(keys, "Backspace")
           IN /\ value[1].field = args.text
              /\ Cardinality(back) = (IF developerMode THEN 0
                                      ELSE Cardinality(TypoEvents(args.typos)))
              /\ Len(keys) = (IF developerMode THEN 0
                              ELSE Len(args.text) + 2 * Cardinality(back))
              /\ \A n \in back : /\ n > 1 /\ keys[n - 1].key = "type"
                                  /\ n < Len(keys) /\ keys[n + 1].key = "type"

\* A two-character text was typed with a typo injected for its first character.
C22_Witness ==
    /\ fn = "naturalTyping"
    /\ ~developerMode
    /\ value # <<>>
    /\ Len(args.text) = 2
    /\ args.typos[1].kind = "adjacent"
    /\ Len(value[1].keys) = 4
    /\ value[1].field = args.text

\* The bounds of the delay claim for the call evaluated: at least 0.8 * min;
\* at most 1.2 * max, or 5 * 1.2 * max in the long-pause branch; in developer
\* mode the fixed 50 ms. (min and max are in half milliseconds, the duration
\* is value[1] / DelayDen.)
DelayWithinBounds ==
    IF developerMode THEN value[1] = DevDelayMs * DelayDen
    ELSE /\ 10 * value[1] >= 4 * args.min * DelayDen
         /\ 10 * value[1] <= (IF LongPause(args.r[3]) THEN 30 ELSE 6) * args.max * DelayDen

C25_KeySeparation ==
    (fn = "buildMentionKey" /\ Len(value) = 2 /\ Triple(args[1]) # Triple(args[2]))
        => value[1] # value[2]

\* C20: at most one simulator is suspended inside checkForPause.
C20_OneSuspended ==
    Cardinality({s \in Accounts : simPaused[s]}) <= 1

\* One simulator is suspended while a further pause request is pending and
\* the simulator of the other account is not running.
C20_Witness ==
    /\ simPaused["bot2"]
    /\ shouldPause
    /\ simOp["bot1"] = "idle"

\* Accounts whose session was initialised successfully in this run.
Initialized == {a \in Accounts : bot[a]}

\* Positions inside the try / while (true) of runMonitorMode.
CyclePcs == {"cycle", "task", "loop", "outcome", "pace", "next", "cycleWait"}

\* C10: when bot.init, login or the constructor throws for an account, its
\* browser is closed, the account is not among the sessions and the
\* initialisation loop goes on with the next account; once the loop is over,
\* the sessions are exactly the accounts that initialised, in configuration
\* order, and the monitor loop is entered iff there is at least one.
C10_InitErrorIsolation ==
    /\ (pc = "init" /\ initFail \in {"init", "persistence"})
          => /\ browser[enabledAccounts[idx - 1]] = "closed"
             /\ \A n \in 1..Len(sessions) : sessions[n] # enabledAccounts[idx - 1]
    /\ (pc \notin {"off", "init"} /\ initFail # "launch")
          => /\ entered <=> Initialized # {}
             /\ pc \in CyclePcs => entered
             /\ sessions = SelectSeq(enabledAccounts, LAMBDA a : bot[a])

\* The first account failed to initialise, the second one is being monitored.
C10_Witness ==
    /\ pc = "task"
    /\ sessions = <<"bot2">>
    /\ browser["bot1"] = "closed"
    /\ browser["bot2"] = "open"

\* Positions inside runMentionReplyTask of the session at idx.
TaskPcs == {"task", "loop", "outcome", "pace"}

\* C26: a mention task starts only when no task is in progress: for the first
\* session when a cycle starts, for the next session in initialisation order
\* when the task before it has returned; a cycle ends only after the task of
\* the last session; while a task runs neither the session nor the list of
\* sessions changes; with more than one session the inter-account delay
\* follows every task.
C26_RoundRobin ==
    [][/\ (pc' = "task" /\ pc # "task")
            => \/ pc = "cycle" /\ idx' = 1
               \/ /\ pc = "next"
                  /\ idx' = idx + 1
                  /\ idx' <= Len(sessions)
                  /\ Len(sessions) > 1 => delayed'
       /\ (pc' = "cycleWait" /\ pc # "cycleWait")
            => /\ pc = "next"
               /\ idx = Len(sessions)
               /\ Len(sessions) > 1 => delayed'
       /\ (pc \in TaskPcs /\ pc' \in TaskPcs \cup {"next"}) => idx' = idx
       /\ (pc \in CyclePcs /\ pc' \in CyclePcs) => sessions' = sessions
       /\ (pc \in TaskPcs /\ pc' \in CyclePcs) => pc' \in TaskPcs \cup {"next"}]_vars

\* In the second cycle the task of the second session starts, the delay
\* having followed the first session's task.
C26_Witness ==
    /\ pc = "task"
    /\ cycle = 2
    /\ idx = 2
    /\ sessions = <<"bot1", "bot2">>
    /\ delayed

\* A login run of the last bot.init threw because the profile link did not
\* appear after the form was submitted.
LoginTimedOut == \E n \in 1..Len(logins) : logins[n] = "noProfileLink"

\* C27: when a login run of bot.init ended without the profile link, a
\* screenshot was written, init threw (the account's browser is closed and
\* the account is not among the sessions the cycles run on), and no comment
\* task runs on the session.
C27_LoginFailureFatal ==
    /\ (pc = "init" /\ idx > 1 /\ LoginTimedOut)
          => /\ screenshot # "none"
             /\ initFail = "init"
             /\ browser[enabledAccounts[idx - 1]] = "closed"
             /\ \A n \in 1..Len(sessions) : sessions[n] # enabledAccounts[idx - 1]
    /\ (pc \in {"comment", "commentDone"}) => ~LoginTimedOut

\* C28: an attempt of replyToMention or runCommentTask that has returned
\* appended exactly one row to the interaction log if its result is SUCCESS
\* and none if its result is SKIPPED or FAILED.
C28_InteractionLog ==
    (pc \in {"outcome", "commentDone"})
        => Cardinality({n \in 1..Len(steps) : steps[n] = "log"})
              = (IF result = "SUCCESS" THEN 1 ELSE 0)

\* C29: an attempt in which the reply's submit control was clicked ends with
\* its key marked seen by the instance, so no later cycle of the instance
\* attempts (and clicks for) that key again.
C29_AtMostOnceReply ==
    (pc = "pace" /\ mention # Undefined /\ "clickPost" \in StepsDone)
        => mention[1].key \in seenMentionKeys[Current]

\* C30: when the loop of runMentionReplyTask passes over a mention whose key
\* is already in the seen set, the skipped tally of the task grows by one.
C30_SeenCountsAsSkipped ==
    [][(/\ pc = "loop"
        /\ pc' = "loop"
        /\ notifications # <<>>
        /\ Head(notifications).key \in seenMentionKeys[Current]
        /\ notifications' = Tail(notifications))
            => tally'.skipped = tally.skipped + 1]_vars

\* C31: an account becomes a session only in a step in which its bot.init
\* returned (found logged in, or the last login run succeeded); a mention task
\* runs only on a session whose orchestrator exists and whose browser is open;
\* and a mention is resolved only after the discovery of the running task
\* has returned its list.
C31_StateMachineOrder ==
    [][/\ (sessions' # sessions /\ sessions' # <<>>)
            => /\ \E a \in Accounts : sessions' = Append(sessions, a) /\ bot'[a] /\ ~bot[a]
               /\ initFail' = "none"
               /\ (logins' = <<>> \/ logins'[Len(logins')] \in LoginReturns)
       /\ pc' \in TaskPcs
            => /\ idx' \in 1..Len(sessions')
               /\ bot'[sessions'[idx']]
               /\ browser'[sessions'[idx']] = "open"
       /\ pc' \in {"loop", "outcome", "pace"} => lastDiscovery' = "ok"
       /\ lastDiscovery' # lastDiscovery => (pc = "task" \/ lastDiscovery' = "none")
       /\ (pc' = "outcome" /\ pc # "outcome") => (pc = "loop" /\ lastDiscovery = "ok")]_vars

\* A mention of the second session has been attempted, the discovery of its
\* task having returned.
C31_Witness ==
    /\ pc = "outcome"
    /\ idx = 2
    /\ sessions = <<"bot1", "bot2">>
    /\ lastDiscovery = "ok"
    /\ mention # Undefined

\* The steps of a reply in the order of the claim: open the post, locate the
\* comment (and hover it), click reply, generate, type, submit.
ReplyOrder == <<"goto", "locate", "hover", "clickReply", "generate", "type", "clickPost">>

\* How often the attempt performed step x, and where first.
Times(x) == Cardinality({n \in 1..Len(steps) : steps[n] = x})
Before(x, y) == \A n \in 1..Len(steps) : steps[n] = y => \E k \in 1..(n - 1) : steps[k] = x

\* C32: the steps of an attempt of replyToMention, the log row apart, are an
\* initial part of the order open-post, locate-comment, click-reply,
\* generate, type, submit: the generator is called at most once and after the
\* reply control was clicked, typing follows the generator, the submit click
\* follows typing.
C32_StepOrder ==
    (pc = "outcome")
        => /\ LET done == SelectSeq(steps, LAMBDA x : x \notin {"log", "logFailed"})
              IN /\ Len(done) <= Len(ReplyOrder)
                 /\ \A n \in 1..Len(done) : done[n] = ReplyOrder[n]
           /\ Times("generate") <= 1
           /\ Before("goto", "locate")
           /\ Before("locate", "clickReply")
           /\ Before("clickReply", "generate")
           /\ Before("generate", "type")
           /\ Before("type", "clickPost")

\* An attempt went through all the steps and submitted.
C32_Witness ==
    /\ pc = "outcome"
    /\ result = "SUCCESS"
    /\ Times("clickPost") = 1
    /\ Times("generate") = 1
    /\ Times("log") = 1

\* C33: the duration of the pacing delay after an attempted mention lies
\* within the window [min, max] of this.actionDelays ([1000 ms, 2000 ms] in
\* developer mode). (value[1] / DelayDen is the duration in milliseconds.)
C33_PacingWithinWindow ==
    (fn = "pacingDelay" /\ value # <<>>)
        => LET w == ActionDelays(developerMode, args.actionDelay)
           IN /\ value[1] >= w.min * DelayDen
              /\ value[1] <= w.max * DelayDen

\* C34: the number of interpolation steps of the trajectory from start to
\* target at distance d is max(15, d / 30): 15 up to d = 450, d / 30 beyond.
C34_TrajectoryStepCount ==
    (fn = "naturalMouseMovement" /\ value # <<>>)
        => LET d2 == SquaredDistance(args.start, args.target)
               n == value[1].points
           IN IF d2 <= 450 * 450 THEN n = 15 ELSE 900 * n * n = d2

\* C35: the handler stores a URL only while capture is on, a task is in
\* progress and nothing is stored yet, so at most once per attempt and never
\* over a stored URL; capture is on only inside a task (in runCommentTask
\* only from the opening of the post); and a captured URL handed to the
\* generator was stored during the attempt that hands it over.
C35_MediaUrlCapture ==
    [][/\ (capturedVideoUrl' # capturedVideoUrl /\ capturedVideoUrl' # Undefined)
            => /\ isCapturingVideo
               /\ op # "idle"
               /\ capturedVideoUrl = Undefined
       /\ storeCount' <= 1
       /\ isCapturingVideo' => (op' # "idle" /\ opPc' # "profile")
       /\ (opPc' = "generated" /\ generatorVideoUrl' # Undefined
             /\ generatorVideoUrl' = capturedVideoUrl')
            => storedIn' = attempts']_vars

\* In a second attempt the generator was given the URL captured during that
\* attempt.
C35_Witness ==
    /\ attempts = 2
    /\ opPc = "generated"
    /\ generatorVideoUrl # Undefined
    /\ generatorVideoUrl = capturedVideoUrl
    /\ storedIn = 2
    /\ isCapturingVideo

\* C36: when markMentionSeen has run and its rewrite of the file succeeded,
\* the file is the JSON array of exactly the keys of seenMentionKeys, so every
\* key the instance marked before, a key whose own write failed included, is
\* in the file.
C36_FileMirrorsMemory ==
    (pc = "pace" /\ result # "FAILED" /\ persistOk = "ok")
        => /\ mentionSeenFile[Current] = FileJson(seenMentionKeys[Current])
           /\ handled[Current] \subseteq mentionSeenFile[Current].keys

\* The second key an instance marked was written with success, and the file
\* holds both keys, whatever happened to the write of the first.
C36_Witness ==
    /\ pc = "pace"
    /\ result # "FAILED"
    /\ persistOk = "ok"
    /\ Cardinality(handled[Current]) = 2
    /\ mentionSeenFile[Current].keys = handled[Current]
    /\ durable[Current] = handled[Current]


\* C37: every pause request (a keypress that sets a clear flag) is either
\* still pending or has caused exactly one suspension: the suspensions of the
\* process and the pending request add up to its requests. The return of
\* page.pause() leaves the flag as it finds it, a request made while a
\* simulator is suspended suspends nobody in that step, and at most one
\* simulator is suspended at a time.
C37_RequestNeverLost ==
    /\ suspensions + (IF shouldPause THEN 1 ELSE 0) = requests
    /\ Cardinality({s \in Accounts : simPaused[s]}) <= 1
    /\ (shouldPause /\ requestedDuring = "suspended") => suspensions >= 1

\* A pause requested while a simulator was suspended is still pending after
\* the resume, with the one suspension of the earlier request counted.
C37_Witness ==
    /\ shouldPause
    /\ requestedDuring = "suspended"
    /\ \A s \in Accounts : ~simPaused[s]
    /\ suspensions = 1
    /\ requests = 2


====
